---- MODULE Spec2Model ----
(***************************************************************************)
(* Model of src/codegen/static_def_gen.py: EnumerateInputs, _GetName and   *)
(* Generate.  Strings are sequences of one-character strings, so that      *)
(* splitting, matching, ordering and formatting are computed character by  *)
(* character as the Python code computes them.                             *)
(***************************************************************************)
EXTENDS Integers, Sequences, FiniteSets, TLC

\* Longest argument list (sys.argv[2:]) the model explores.
MaxInputs == 2

\* maxsplit argument of current_input.split(':', 2).
MaxSplit == 2

(***************************************************************************)
(* Character strings                                                       *)
(***************************************************************************)

\* Code point of each character (Python compares str by code point).
Code ==
  [c \in {"$", "(", ".", "/", "0", "1", "2", "3", "4", "5", "6", "7", "8", "9",
          ":", "F", "M", "^", "_", "a", "b", "c", "d", "e", "f", "i", "j", "l",
          "n", "s", "t", "u", "x", "y", "|"} |->
     CASE c = "$" -> 36  [] c = "(" -> 40  [] c = "." -> 46  [] c = "/" -> 47
       [] c = "0" -> 48  [] c = "1" -> 49  [] c = "2" -> 50  [] c = "3" -> 51
       [] c = "4" -> 52  [] c = "5" -> 53  [] c = "6" -> 54  [] c = "7" -> 55
       [] c = "8" -> 56  [] c = "9" -> 57  [] c = ":" -> 58  [] c = "F" -> 70
       [] c = "M" -> 77  [] c = "^" -> 94  [] c = "_" -> 95  [] c = "a" -> 97
       [] c = "b" -> 98  [] c = "c" -> 99  [] c = "d" -> 100 [] c = "e" -> 101
       [] c = "f" -> 102 [] c = "i" -> 105 [] c = "j" -> 106 [] c = "l" -> 108
       [] c = "n" -> 110 [] c = "s" -> 115 [] c = "t" -> 116 [] c = "u" -> 117
       [] c = "x" -> 120 [] c = "y" -> 121 [] c = "|" -> 124]

\* Python's s < t on str: lexicographic by code point, a proper prefix first.
RECURSIVE StrLess(_, _)
StrLess(s, t) ==
  IF t = <<>> THEN FALSE
  ELSE IF s = <<>> THEN TRUE
  ELSE IF Code[Head(s)] # Code[Head(t)] THEN Code[Head(s)] < Code[Head(t)]
  ELSE StrLess(Tail(s), Tail(t))

\* str.find(ch): index (from 1) of the first occurrence, 0 when absent.
RECURSIVE Find(_, _)
Find(s, ch) ==
  IF s = <<>> THEN 0
  ELSE IF Head(s) = ch THEN 1
  ELSE LET r == Find(Tail(s), ch) IN IF r = 0 THEN 0 ELSE r + 1

\* str.rfind(ch): index (from 1) of the last occurrence, 0 when absent.
RECURSIVE RFind(_, _)
RFind(s, ch) ==
  IF s = <<>> THEN 0
  ELSE IF s[Len(s)] = ch THEN Len(s)
  ELSE RFind(SubSeq(s, 1, Len(s) - 1), ch)

\* str.split(sep, maxsplit): cut at the first maxsplit separators, left to
\* right; a negative maxsplit cuts at every separator.
RECURSIVE Split(_, _, _)
Split(s, sep, maxsplit) ==
  LET k == Find(s, sep) IN
    IF maxsplit = 0 \/ k = 0 THEN <<s>>
    ELSE <<SubSeq(s, 1, k - 1)>> \o
         Split(SubSeq(s, k + 1, Len(s)), sep, maxsplit - 1)

\* str.replace(old, new) for one-character old and new.
RECURSIVE Replace(_, _, _)
Replace(s, old, new) ==
  IF s = <<>> THEN <<>>
  ELSE <<IF Head(s) = old THEN new ELSE Head(s)>> \o Replace(Tail(s), old, new)

\* os.path.basename(p): what follows the last '/'.
Basename(p) == SubSeq(p, RFind(p, "/") + 1, Len(p))

\* The loop of posixpath.splitext that skips the leading dots of the name:
\* TRUE when some character of p[from..dot-1] is not a dot.
RECURSIVE HasNonDot(_, _, _)
HasNonDot(p, from, dot) ==
  IF from >= dot THEN FALSE
  ELSE IF p[from] # "." THEN TRUE
  ELSE HasNonDot(p, from + 1, dot)

\* os.path.splitext(p)[1]: the extension with its dot, or the empty string.
SplitextExt(p) ==
  LET sepIndex == RFind(p, "/")
      dotIndex == RFind(p, ".")
  IN IF dotIndex > sepIndex /\ HasNonDot(p, sepIndex + 1, dotIndex)
     THEN SubSeq(p, dotIndex, Len(p))
     ELSE <<>>

\* re.sub('^\\.', '', s): drop one leading dot.
StripLeadingDot(s) == IF s # <<>> /\ Head(s) = "." THEN Tail(s) ELSE s

\* ext computed for a table row.
Extension(path) == StripLeadingDot(SplitextExt(path))

\* str(n) for n >= 0: the decimal digits, most significant first.
Digit(n) ==
  CASE n = 0 -> "0" [] n = 1 -> "1" [] n = 2 -> "2" [] n = 3 -> "3"
    [] n = 4 -> "4" [] n = 5 -> "5" [] n = 6 -> "6" [] n = 7 -> "7"
    [] n = 8 -> "8" [] n = 9 -> "9"

RECURSIVE DecimalStr(_)
DecimalStr(n) ==
  IF n < 10 THEN <<Digit(n)>>
  ELSE DecimalStr(n \div 10) \o <<Digit(n % 10)>>

(***************************************************************************)
(* Regular expressions: the fragment the modelled patterns use.  A pattern *)
(* is alternatives separated by '|'; an alternative is a sequence of       *)
(* atoms: '^' (start of string), '$' (end of string), '.' (any character)  *)
(* and literal characters.  '(' opens a group; the modelled patterns never *)
(* close one, which re.compile rejects.                                    *)
(***************************************************************************)

\* re.compile(p) succeeds.
ValidPattern(p) == Find(p, "(") = 0

\* Atoms alt[i..] match path from offset pos (characters consumed so far).
RECURSIVE MatchHere(_, _, _, _)
MatchHere(alt, i, path, pos) ==
  IF i > Len(alt) THEN TRUE
  ELSE IF alt[i] = "^" THEN pos = 0 /\ MatchHere(alt, i + 1, path, pos)
  ELSE IF alt[i] = "$" THEN pos = Len(path) /\ MatchHere(alt, i + 1, path, pos)
  ELSE IF alt[i] = "." THEN pos < Len(path) /\ MatchHere(alt, i + 1, path, pos + 1)
  ELSE pos < Len(path) /\ path[pos + 1] = alt[i]
       /\ MatchHere(alt, i + 1, path, pos + 1)

\* Variant of Match: re.search semantics, a match starting at any position.
MatchSearch(pattern, path) ==
  LET alts == Split(pattern, "|", -1) IN
    \E a \in 1..Len(alts) : \E start \in 0..Len(path) :
      MatchHere(alts[a], 1, path, start)

\* pattern.match(path) returns a match object: some alternative matches at
\* the start of path.
Match(pattern, path) ==
  LET alts == Split(pattern, "|", -1) IN
    \E a \in 1..Len(alts) : MatchHere(alts[a], 1, path, 0)

(***************************************************************************)
(* The file system the run reads: locations named on the command line.     *)
(***************************************************************************)

L_d == <<"d">>
L_e == <<"e">>
L_f == <<"f">>
L_j == <<"j">>
L_n == <<"n">>
L_u == <<"u">>

P_a == <<"a">>
P_b == <<"b">>
P_x == <<"x">>
P_a_b == <<"a", "/", "b">>
P_a_b_c_txt == <<"a", "/", "b", "/", "c", ".", "t", "x", "t">>
P_x_a_b == <<"x", "/", "a", "/", "b">>
P_x_c_txt == <<"x", "/", "c", ".", "t", "x", "t">>
P_class == <<"a", "/", "b", "/", "M", "y", ".", "F", "i", "l", "e", "$", "1",
             ".", "c", "l", "a", "s", "s">>

\* os.path.isdir(loc): d is a readable tree; u has a subdirectory that can
\* not be listed; e holds files whose open or read fails.
IsDir(loc) == loc \in {L_d, L_e, L_u}

\* zipfile.ZipFile(loc, 'r') finds a file: j is an archive, f is a file that
\* is no archive, n does not exist.
Exists(loc) == loc \in {L_d, L_e, L_u, L_j, L_f}
IsZip(loc) == loc = L_j

\* The orders in which os.walk(loc) can produce the files of loc when every
\* directory can be listed: top-down, each directory's files before its
\* subdirectories', the subdirectories in the order scandir returns them.
DirWalks(loc) ==
  CASE loc = L_d -> {<<P_a_b_c_txt, P_x_c_txt, P_x_a_b>>,
                     <<P_x_c_txt, P_x_a_b, P_a_b_c_txt>>}
    [] loc = L_e -> {<<P_a, P_b>>, <<P_b, P_a>>}
    [] loc = L_u -> {<<P_x, P_a_b>>}
    [] OTHER -> {<<>>}

\* Directories of loc (relative paths) whose listing raises OSError.
Unreadable(loc) == IF loc = L_u THEN {P_a} ELSE {}

\* File p lies in directory q of the tree, at any depth.
UnderDir(p, q) ==
  /\ Len(p) > Len(q) + 1
  /\ SubSeq(p, 1, Len(q)) = q
  /\ p[Len(q) + 1] = "/"

\* os.walk(loc) with the default onerror=None: a directory whose listing
\* fails is skipped without an error, with everything beneath it.
Walk(loc) ==
  {SelectSeq(order, LAMBDA p : \A q \in Unreadable(loc) : ~UnderDir(p, q)) :
     order \in DirWalks(loc)}

\* jar.namelist(): the member names in the order of the archive's directory.
Namelist(loc) == IF loc = L_j THEN <<P_x_a_b, P_class>> ELSE <<>>

\* Content of a file or an archive member.  failAt = n > 0: the n-th read
\* raises IOError.  openFails: opening the stream raises IOError.
FileData(loc, member) ==
  CASE loc = L_d /\ member = P_a_b_c_txt ->
         [bytes |-> <<>>, failAt |-> 0, openFails |-> FALSE]
    [] loc = L_d /\ member = P_x_a_b ->
         [bytes |-> <<255>>, failAt |-> 0, openFails |-> FALSE]
    [] loc = L_d /\ member = P_x_c_txt ->
         [bytes |-> <<0, 10>>, failAt |-> 0, openFails |-> FALSE]
    [] loc = L_j /\ member = P_x_a_b ->
         [bytes |-> <<65>>, failAt |-> 0, openFails |-> FALSE]
    [] loc = L_j /\ member = P_class ->
         [bytes |-> <<202, 0, 7>>, failAt |-> 0, openFails |-> FALSE]
    [] loc = L_e /\ member = P_a ->
         [bytes |-> <<1, 2, 3>>, failAt |-> 2, openFails |-> FALSE]
    [] loc = L_e /\ member = P_b ->
         [bytes |-> <<>>, failAt |-> 0, openFails |-> TRUE]
    [] OTHER ->
         [bytes |-> <<100>>, failAt |-> 0, openFails |-> FALSE]

\* The <entry>:<pattern> arguments the runs draw from.
A_d_prefix == <<"d", ":", "^", "a", "/", "b">>
A_d_all == <<"d", ":", ".">>
A_d_colon == <<"d", ":", "x", ":", "|", "a">>
A_d_none == <<"d", ":", "$">>
A_d_bad == <<"d", ":", "(">>
A_d_colon_bad == <<"d", ":", "a", ":", "(">>
A_d_bare == <<"d">>
A_j_all == <<"j", ":", ".">>
A_n_all == <<"n", ":", ".">>
A_u_all == <<"u", ":", ".">>
A_e_a == <<"e", ":", "a">>
A_e_b == <<"e", ":", "b">>
A_f_all == <<"f", ":", ".">>

InputSpecs ==
  {A_d_prefix, A_d_all, A_d_colon, A_d_none, A_d_bad, A_d_colon_bad, A_d_bare,
   A_j_all, A_n_all, A_u_all, A_e_a, A_e_b, A_f_all}

(***************************************************************************)
(* State                                                                   *)
(***************************************************************************)

VARIABLES
  inputs,        \* sys.argv[2:]
  pc,            \* where Generate is
  error,         \* the exception that ended the run, "" when none
  idx,           \* number of inputs the for loop of EnumerateInputs has taken
  entry,         \* local entry of EnumerateInputs
  pattern,       \* local pattern of EnumerateInputs (the compiled source)
  jar,           \* <<>> in the directory branch, else <<the ZipFile handle>>
  pending,       \* names the inner for loop has still to test
  yielded,       \* items EnumerateInputs has yielded so far
  listed,        \* inputs whose source os.walk or ZipFile has opened
  openJars,      \* ZipFile handles open
  binary_files,  \* local binary_files of Generate
  k,             \* index in binary_files of the first for loop of Generate
  f,             \* <<>> or <<stream>>: the stream of the with statement
  openStreams,   \* content streams open
  cc_file,       \* the writes made to the output file, in order
  cc_open        \* the output file is open

vars ==
  <<inputs, pc, error, idx, entry, pattern, jar, pending, yielded, listed,
    openJars, binary_files, k, f, openStreams, cc_file, cc_open>>

Init ==
  /\ inputs \in UNION {[1..n -> InputSpecs] : n \in 1..MaxInputs}
  /\ pc = "start"
  /\ error = ""
  /\ idx = 0
  /\ entry = <<>>
  /\ pattern = <<>>
  /\ jar = <<>>
  /\ pending = <<>>
  /\ yielded = <<>>
  /\ listed = {}
  /\ openJars = {}
  /\ binary_files = <<>>
  /\ k = 0
  /\ f = <<>>
  /\ openStreams = 0
  /\ cc_file = <<>>
  /\ cc_open = FALSE

(***************************************************************************)
(* Helpers of the operations                                               *)
(***************************************************************************)

\* The dictionary EnumerateInputs yields: the relative path and the closure
\* 'open' with the values its default arguments captured (full_path as the
\* source and the path under it, or the jar handle and the member name).
Item(path, kind, loc, handle) ==
  [path |-> path,
   open |-> [kind |-> kind, loc |-> loc, member |-> path, jar |-> handle]]

\* Variant of _GetName: the '$' characters are kept.
_GetNameKeepsDollar(item) == Replace(Basename(item.path), ".", "_")

\* _GetName(item): the name of the C++ variable.
_GetName(item) == Replace(Replace(Basename(item.path), ".", "_"), "$", "_")

\* Position at which a new element goes into an ascending list so that it
\* follows every element whose key is not greater (a stable sort).
InsertAt(sorted, x) ==
  Cardinality({j \in 1..Len(sorted) : ~StrLess(x.path, sorted[j].path)})

\* Variant of Sorted: the items are left in the order they were yielded.
Unsorted(items) == items

\* Variant of Sorted: an item whose path is already present is dropped.
RECURSIVE SortedUnique(_)
SortedUnique(items) ==
  IF items = <<>> THEN <<>>
  ELSE LET front == SortedUnique(SubSeq(items, 1, Len(items) - 1))
           x == items[Len(items)]
           i == InsertAt(front, x)
       IN IF \E j \in 1..Len(front) : front[j].path = x.path THEN front
          ELSE SubSeq(front, 1, i) \o <<x>> \o SubSeq(front, i + 1, Len(front))

\* sorted(items, key=lambda binary_file: binary_file['path']).
RECURSIVE Sorted(_)
Sorted(items) ==
  IF items = <<>> THEN <<>>
  ELSE LET front == Sorted(SubSeq(items, 1, Len(items) - 1))
           x == items[Len(items)]
           i == InsertAt(front, x)
       IN SubSeq(front, 1, i) \o <<x>> \o SubSeq(front, i + 1, Len(front))

\* One cc_file.write call: what it writes and the values formatted into it.
Write(op, name, arg) == [op |-> op, name |-> name, arg |-> arg]

\* f.read(1): one byte, or the empty bytes object at the end of the stream.
Read1(stream) ==
  IF stream.pos < Len(stream.bytes) THEN <<stream.bytes[stream.pos + 1]>>
  ELSE <<>>

\* Variant of LoopContinues: the loop tests the value of the byte.
LoopContinuesNonZero(byte) == byte # <<>> /\ byte[1] # 0

\* The test of 'while byte:': a bytes object is true when it is not empty.
LoopContinues(byte) == byte # <<>>

\* ord(byte) of a one-byte bytes object.
Ord(byte) == byte[1]

\* The five writes of one record of kBinaryFiles.
Row(item) == Write("row", _GetName(item), Extension(item.path))

\* Variant of TableRows: the loop stops one item early.
TableRowsButLast(files) == [i \in 1..(Len(files) - 1) |-> Row(files[i])]

\* The second loop over binary_files: one record per item, in order.
TableRows(files) == [i \in 1..Len(files) |-> Row(files[i])]

\* An exception leaves Generate: nothing after the raise runs.
Raise(e) == pc' = "failed" /\ error' = e

(***************************************************************************)
(* Operations                                                              *)
(***************************************************************************)

\* cc_file = open(cc_file_path, 'w+'); sorted() then starts the generator.
OpenOutput ==
  /\ pc = "start"
  /\ cc_open' = TRUE
  /\ cc_file' = <<>>
  /\ pc' = "next_input"
  /\ UNCHANGED <<inputs, error, idx, entry, pattern, jar, pending, yielded,
                 listed, openJars, binary_files, k, f, openStreams>>

\* The head of the loop over inputs: split the argument, compile the pattern.
ParseInput ==
  /\ pc = "next_input"
  /\ idx < Len(inputs)
  /\ idx' = idx + 1
  /\ LET components == Split(inputs[idx + 1], ":", MaxSplit) IN
       IF Len(components) < 2
       THEN Raise("IndexError") /\ UNCHANGED <<entry, pattern>>
       ELSE /\ entry' = components[1]
            /\ IF ValidPattern(components[2])
               THEN pattern' = components[2] /\ pc' = "source" /\ error' = error
               ELSE Raise("re.error") /\ UNCHANGED pattern
  /\ UNCHANGED <<inputs, jar, pending, yielded, listed, openJars, binary_files,
                 k, f, openStreams, cc_file, cc_open>>

\* if os.path.isdir(entry): os.walk(entry); else: zipfile.ZipFile(entry, 'r')
\* and jar.namelist().
OpenSource ==
  /\ pc = "source"
  /\ IF IsDir(entry)
     THEN /\ \E order \in Walk(entry) :
               /\ pending' = order
               /\ pc' = IF order = <<>> THEN "next_input" ELSE "filter"
          /\ jar' = <<>>
          /\ listed' = listed \cup {idx}
          /\ UNCHANGED <<error, openJars>>
     ELSE IF ~Exists(entry)
     THEN Raise("FileNotFoundError") /\ UNCHANGED <<jar, pending, listed, openJars>>
     ELSE IF ~IsZip(entry)
     THEN Raise("BadZipFile") /\ UNCHANGED <<jar, pending, listed, openJars>>
     ELSE /\ jar' = <<[id |-> idx, loc |-> entry]>>
          /\ openJars' = openJars \cup {idx}
          /\ listed' = listed \cup {idx}
          /\ pending' = Namelist(entry)
          /\ pc' = IF Namelist(entry) = <<>> THEN "next_input" ELSE "filter"
          /\ UNCHANGED error
  /\ UNCHANGED <<inputs, idx, entry, pattern, yielded, binary_files, k, f,
                 openStreams, cc_file, cc_open>>

\* One iteration of the inner loop: test the next name against the pattern
\* and yield an item when it matches.  The archive loop binds the member
\* name to entry.
Filter ==
  /\ pc = "filter"
  /\ pending # <<>>
  /\ LET name == Head(pending) IN
       /\ yielded' = IF Match(pattern, name)
                     THEN Append(yielded,
                                 IF jar = <<>> THEN Item(name, "file", entry, 0)
                                 ELSE Item(name, "jar", jar[1].loc, jar[1].id))
                     ELSE yielded
       /\ entry' = IF jar = <<>> THEN entry ELSE name
  /\ pending' = Tail(pending)
  /\ pc' = IF Tail(pending) = <<>> THEN "next_input" ELSE "filter"
  /\ UNCHANGED <<inputs, error, idx, pattern, jar, listed, openJars,
                 binary_files, k, f, openStreams, cc_file, cc_open>>

\* The generator is exhausted: sorted() returns.
Sort ==
  /\ pc = "next_input"
  /\ idx = Len(inputs)
  /\ binary_files' = Sorted(yielded)
  /\ k' = 1
  /\ pc' = "render"
  /\ UNCHANGED <<inputs, error, idx, entry, pattern, jar, pending, yielded,
                 listed, openJars, f, openStreams, cc_file, cc_open>>

\* Head of the first loop over binary_files: write the start of the array
\* declaration and enter the with statement (call the item's 'open').
BeginEntry ==
  /\ pc = "render"
  /\ k <= Len(binary_files)
  /\ LET item == binary_files[k]
         data == FileData(item.open.loc, item.open.member)
     IN /\ cc_file' = Append(cc_file, Write("array_open", _GetName(item), <<>>))
        /\ IF data.openFails
           THEN Raise("IOError") /\ UNCHANGED <<f, openStreams>>
           ELSE /\ f' = <<[bytes |-> data.bytes, failAt |-> data.failAt, pos |-> 0]>>
                /\ openStreams' = openStreams + 1
                /\ pc' = "read"
                /\ UNCHANGED error
  /\ UNCHANGED <<inputs, idx, entry, pattern, jar, pending, yielded, listed,
                 openJars, binary_files, k, cc_open>>

\* byte = f.read(1) and the test of the while loop.  A byte is written as a
\* decimal number; at the end of the stream the with statement closes f and
\* the end of the array and the path declaration are written.  A read that
\* raises leaves the with statement, which closes f.
ReadByte ==
  /\ pc = "read"
  /\ LET stream == f[1] IN
       IF stream.failAt = stream.pos + 1
       THEN /\ Raise("IOError")
            /\ f' = <<>>
            /\ openStreams' = openStreams - 1
            /\ UNCHANGED <<cc_file, k>>
       ELSE LET byte == Read1(stream) IN
         IF LoopContinues(byte)
         THEN /\ cc_file' = Append(cc_file, Write("byte", <<>>, DecimalStr(Ord(byte))))
              /\ f' = <<[stream EXCEPT !.pos = stream.pos + 1]>>
              /\ UNCHANGED <<pc, error, openStreams, k>>
         ELSE /\ f' = <<>>
              /\ openStreams' = openStreams - 1
              /\ cc_file' = cc_file \o
                   <<Write("array_close", <<>>, <<>>),
                     Write("path_decl", _GetName(binary_files[k]), binary_files[k].path)>>
              /\ k' = k + 1
              /\ pc' = "render"
              /\ UNCHANGED error
  /\ UNCHANGED <<inputs, idx, entry, pattern, jar, pending, yielded, listed,
                 openJars, binary_files, cc_open>>

\* After the first loop: the blank line, the struct declaration, one record
\* per item of binary_files, the closing line, and cc_file.close().
WriteTable ==
  /\ pc = "render"
  /\ k > Len(binary_files)
  /\ cc_file' = cc_file \o
       <<Write("blank", <<>>, <<>>), Write("table_open", <<>>, <<>>)>> \o
       TableRows(binary_files) \o
       <<Write("table_close", <<>>, <<>>)>>
  /\ cc_open' = FALSE
  /\ pc' = "done"
  /\ UNCHANGED <<inputs, error, idx, entry, pattern, jar, pending, yielded,
                 listed, openJars, binary_files, k, f, openStreams>>

Next ==
  \/ OpenOutput
  \/ ParseInput
  \/ OpenSource
  \/ Filter
  \/ Sort
  \/ BeginEntry
  \/ ReadByte
  \/ WriteTable

Spec == Init /\ [][Next]_vars

(***************************************************************************)
(* Vocabulary of the properties: what the output file says, and what the   *)
(* command line and the file system ask for, stated without the operators  *)
(* the operations are built from.                                          *)
(***************************************************************************)

\* The writes of one kind, in the order they were made.
Writes(op) == SelectSeq(cc_file, LAMBDA w : w.op = op)

\* Relative paths of the per-entry blocks, and the identifiers of the
\* blocks and of the table records, in output order.
DeclPaths == [i \in 1..Len(Writes("path_decl")) |-> Writes("path_decl")[i].arg]
DeclNames == [i \in 1..Len(Writes("path_decl")) |-> Writes("path_decl")[i].name]
ArrayNames == [i \in 1..Len(Writes("array_open")) |-> Writes("array_open")[i].name]
RowNames == [i \in 1..Len(Writes("row")) |-> Writes("row")[i].name]

\* Number of positions of a sequence that hold a value.
Occurrences(seq, v) == Cardinality({i \in 1..Len(seq) : seq[i] = v})

\* s comes strictly before t in byte-wise order: at the first position where
\* they differ s has the smaller byte, or s is a proper prefix of t.
PathBefore(s, t) ==
  \E i \in 1..Len(t) :
    /\ i <= Len(s) + 1
    /\ \A j \in 1..(i - 1) : s[j] = t[j]
    /\ \/ i = Len(s) + 1
       \/ i <= Len(s) /\ Code[s[i]] < Code[t[i]]

\* Position of the first colon of an argument.
FirstColon(arg) ==
  CHOOSE i \in 1..Len(arg) : arg[i] = ":" /\ \A j \in 1..(i - 1) : arg[j] # ":"

HasColon(arg) == \E i \in 1..Len(arg) : arg[i] = ":"

\* The location and the pattern of an argument L:P.
ArgLocation(arg) ==
  IF HasColon(arg) THEN SubSeq(arg, 1, FirstColon(arg) - 1) ELSE arg
ArgPattern(arg) == SubSeq(arg, FirstColon(arg) + 1, Len(arg))

\* The pattern EnumerateInputs compiles for the i-th argument (components[1]).
SourcePattern(i) == Split(inputs[i], ":", MaxSplit)[2]

\* The names the i-th source lists: the files os.walk reaches, or the
\* members of the archive.
Listing(i) ==
  LET loc == ArgLocation(inputs[i]) IN
    IF IsDir(loc)
    THEN UNION {{order[n] : n \in 1..Len(order)} : order \in Walk(loc)}
    ELSE {Namelist(loc)[n] : n \in 1..Len(Namelist(loc))}

\* The alternatives of a pattern: the stretches between its '|' characters.
Alternatives(pat) ==
  LET cuts == {0, Len(pat) + 1} \cup {i \in 1..Len(pat) : pat[i] = "|"} IN
    {SubSeq(pat, a + 1, b - 1) :
       <<a, b>> \in {c \in cuts \X cuts :
                       c[1] < c[2] /\ \A m \in cuts : ~(c[1] < m /\ m < c[2])}}

\* The alternative spells the first n characters of path: its consuming atoms
\* are those n characters ('.' standing for any), every '^' stands before the
\* first of them, and every '$' stands after the last with n the whole path.
Spells(alt, path, n) ==
  LET consuming == SelectSeq(alt, LAMBDA c : c \notin {"^", "$"})
      before(i) == Cardinality({j \in 1..(i - 1) : alt[j] \notin {"^", "$"}})
  IN /\ Len(consuming) = n
     /\ n <= Len(path)
     /\ \A j \in 1..n : consuming[j] = "." \/ consuming[j] = path[j]
     /\ \A i \in 1..Len(alt) : alt[i] = "^" => before(i) = 0
     /\ \A i \in 1..Len(alt) : alt[i] = "$" => before(i) = n /\ n = Len(path)

\* The pattern matches starting at position 0 of path; what follows the
\* matched part is free.
PrefixAccepts(pat, path) ==
  \E alt \in Alternatives(pat) : \E n \in 0..Len(path) : Spells(alt, path, n)

\* The (argument, name) pairs whose name is matched by the pattern compiled
\* for the argument.
MatchedPairs ==
  {<<i, name>> \in (1..Len(inputs)) \X UNION {Listing(i) : i \in 1..Len(inputs)} :
     name \in Listing(i) /\ PrefixAccepts(SourcePattern(i), name)}

\* The final segment of a path: its longest suffix without a '/'.
FinalSegment(path) ==
  LET n == CHOOSE m \in 0..Len(path) :
             /\ \A j \in (m + 1)..Len(path) : path[j] # "/"
             /\ m > 0 => path[m] = "/"
  IN SubSeq(path, n + 1, Len(path))

\* name is seg with every '.' and '$' turned into '_' and nothing else changed.
Sanitizes(name, seg) ==
  /\ Len(name) = Len(seg)
  /\ \A j \in 1..Len(seg) :
       name[j] = IF seg[j] \in {".", "$"} THEN "_" ELSE seg[j]

\* Value of a decimal numeral.
RECURSIVE ParseDecimal(_)
ParseDecimal(digits) ==
  IF digits = <<>> THEN 0
  ELSE 10 * ParseDecimal(SubSeq(digits, 1, Len(digits) - 1))
       + (Code[digits[Len(digits)]] - Code["0"])

\* Positions in cc_file of the n-th start and the n-th end of an array.
NthWrite(op, n) ==
  CHOOSE i \in 1..Len(cc_file) :
    /\ cc_file[i].op = op
    /\ Cardinality({j \in 1..i : cc_file[j].op = op}) = n

\* The numbers written between the n-th '{' and its '}', in order.
DecodedArray(n) ==
  LET from == NthWrite("array_open", n)
      to == NthWrite("array_close", n)
  IN [i \in 1..(to - from - 1) |-> ParseDecimal(cc_file[from + i].arg)]

\* The bytes of the source of an item.
SourceBytes(item) == FileData(item.open.loc, item.open.member).bytes

(***************************************************************************)
(* Properties                                                              *)
(***************************************************************************)

\* C1 (as stated): when Generate completes, each entry's path in the output is
\* strictly greater than the path of the entry before it.
C1_StrictlyAscending ==
  pc = "done" =>
    \A i \in 1..(Len(DeclPaths) - 1) : PathBefore(DeclPaths[i], DeclPaths[i + 1])

\* C1 (amended): when Generate completes, the paths of the per-entry blocks
\* are in ascending order, no path before a smaller one; two neighbours are
\* equal only when that path was yielded more than once; and the table
\* records name the same entries in the same order as the blocks.
C1_Ascending ==
  pc = "done" =>
    /\ \A i \in 1..(Len(DeclPaths) - 1) :
         /\ ~PathBefore(DeclPaths[i + 1], DeclPaths[i])
         /\ DeclPaths[i] = DeclPaths[i + 1] =>
              Cardinality({n \in 1..Len(yielded) : yielded[n].path = DeclPaths[i]}) > 1
    /\ Len(DeclPaths) = Len(yielded)
    /\ RowNames = DeclNames

\* A completed run whose items were yielded out of order, with a repeated
\* path and with distinct paths in the output.
C1_Witness ==
  /\ pc = "done"
  /\ binary_files # yielded
  /\ \E i \in 1..(Len(DeclPaths) - 1) : DeclPaths[i] = DeclPaths[i + 1]
  /\ \E i \in 1..(Len(DeclPaths) - 1) : PathBefore(DeclPaths[i], DeclPaths[i + 1])

\* C2: the pattern compiled and used for filtering for an argument L:P is all
\* of P, everything after the first colon, also when P contains colons.
C2_PatternIsAllAfterFirstColon ==
  pc \in {"source", "filter"} => pattern = ArgPattern(inputs[idx])

\* C3: when the run fails with a pattern error, no source of any argument has
\* been listed, walked or opened.
C3_PatternErrorBeforeEnumeration ==
  error = "re.error" => listed = {} /\ openJars = {}

\* C4: a run does not complete when the location of an argument is a
\* directory that does not exist or one with a directory that cannot be read.
C4_DirectoryErrorsAreFatal ==
  pc = "done" =>
    \A i \in 1..Len(inputs) :
      /\ Exists(ArgLocation(inputs[i]))
      /\ Unreadable(ArgLocation(inputs[i])) = {}

\* C5: at every exit of Generate every content stream and every archive
\* handle opened during the run has been released, and at no point is more
\* than one content stream open.
C5_InputHandlesReleased ==
  /\ openStreams <= 1
  /\ pc \in {"done", "failed"} => openStreams = 0 /\ openJars = {}

\* C6: when Generate completes, the table holds one record per yielded
\* entry: the number of records, of array declarations and of path
\* declarations all equal the number of (argument, name) pairs whose name
\* matched the pattern compiled for the argument, whatever else was scanned;
\* when nothing matched the output is the empty table alone.
C6_OneRecordPerMatch ==
  pc = "done" =>
    /\ Len(Writes("row")) = Cardinality(MatchedPairs)
    /\ Len(Writes("array_open")) = Cardinality(MatchedPairs)
    /\ Len(Writes("array_close")) = Cardinality(MatchedPairs)
    /\ Len(Writes("path_decl")) = Cardinality(MatchedPairs)
    /\ MatchedPairs = {} =>
         cc_file = <<Write("blank", <<>>, <<>>), Write("table_open", <<>>, <<>>),
                     Write("table_close", <<>>, <<>>)>>

\* A completed run that scanned names it did not match and matched others.
C6_Witness ==
  /\ pc = "done"
  /\ Len(Writes("row")) >= 1
  /\ \E i \in 1..Len(inputs) : \E name \in Listing(i) : <<i, name>> \notin MatchedPairs

\* C7: when Generate completes, every relative path has one block in the
\* output per argument whose source lists it and whose compiled pattern
\* matches it
\* (two arguments naming the same source give two blocks), and every
\* identifier has as many table records as blocks.
C7_NoDeduplication ==
  pc = "done" =>
    /\ \A i \in 1..Len(inputs) : \A name \in Listing(i) :
         Occurrences(DeclPaths, name) =
           Cardinality({j \in 1..Len(inputs) : <<j, name>> \in MatchedPairs})
    /\ \A n \in 1..Len(DeclNames) :
         Occurrences(RowNames, DeclNames[n]) = Occurrences(DeclNames, DeclNames[n])

\* A completed run of two arguments that name the same source and both match
\* a path, which the output holds twice.
C7_Witness ==
  /\ pc = "done"
  /\ Len(inputs) = 2
  /\ ArgLocation(inputs[1]) = ArgLocation(inputs[2])
  /\ \E name \in Listing(1) :
       /\ <<1, name>> \in MatchedPairs
       /\ <<2, name>> \in MatchedPairs
       /\ Occurrences(DeclPaths, name) = 2
       /\ \E n \in 1..Len(DeclPaths) :
            DeclPaths[n] = name /\ Occurrences(RowNames, DeclNames[n]) >= 2

\* C8: every step of the inner loop of EnumerateInputs, over a directory or
\* an archive, yields the name it tests exactly when the pattern matches at
\* position 0 of the name (trailing characters free), and yields nothing else.
C8_PrefixAnchoredFilter ==
  [][(pc = "filter" /\ pc' \in {"filter", "next_input"}) =>
       IF PrefixAccepts(pattern, Head(pending))
       THEN /\ Len(yielded') = Len(yielded) + 1
            /\ SubSeq(yielded', 1, Len(yielded)) = yielded
            /\ yielded'[Len(yielded')].path = Head(pending)
       ELSE yielded' = yielded]_vars

\* The source d has been filtered by '^a/b': a/b/c.txt was yielded and x/a/b,
\* which holds a/b at a later position, was not.
C8_Witness ==
  /\ pc = "next_input"
  /\ idx = 1
  /\ pattern = <<"^", "a", "/", "b">>
  /\ P_x_a_b \in Listing(1)
  /\ yielded = <<Item(P_a_b_c_txt, "file", L_d, 0)>>

\* C9: the numbers of every completed array declaration, read in order, are
\* the bytes of the entry's source: same length, same order, each in 0..255.
C9_ContentRoundTrip ==
  \A n \in 1..Len(Writes("array_close")) :
    /\ DecodedArray(n) = SourceBytes(binary_files[n])
    /\ \A i \in 1..Len(DecodedArray(n)) : DecodedArray(n)[i] \in 0..255

\* A completed run whose output holds an empty array, a one-byte array and a
\* longer one.
C9_Witness ==
  /\ pc = "done"
  /\ \E n \in 1..Len(binary_files) : DecodedArray(n) = <<>>
  /\ \E n \in 1..Len(binary_files) : DecodedArray(n) = <<255>>
  /\ \E n \in 1..Len(binary_files) : DecodedArray(n) = <<202, 0, 7>>

\* C10: the identifier of every block and record is the final segment of the
\* entry's path with each '.' and '$' turned into '_' and nothing else
\* changed; entries whose paths end in the same segment share an identifier.
C10_IdentifierFromFinalSegment ==
  /\ \A n \in 1..Len(DeclPaths) :
       /\ Sanitizes(DeclNames[n], FinalSegment(DeclPaths[n]))
       /\ ArrayNames[n] = DeclNames[n]
  /\ \A m, n \in 1..Len(DeclPaths) :
       FinalSegment(DeclPaths[m]) = FinalSegment(DeclPaths[n]) =>
         DeclNames[m] = DeclNames[n]
  /\ pc = "done" => RowNames = DeclNames

\* A completed run that names a/b/My.File$1.class My_File_1_class and gives
\* two entries of different directories the same identifier.
C10_Witness ==
  /\ pc = "done"
  /\ \E n \in 1..Len(DeclPaths) :
       /\ DeclPaths[n] = P_class
       /\ DeclNames[n] = <<"M", "y", "_", "F", "i", "l", "e", "_", "1", "_",
                           "c", "l", "a", "s", "s">>
  /\ \E m, n \in 1..Len(DeclPaths) :
       DeclPaths[m] # DeclPaths[n] /\ DeclNames[m] = DeclNames[n]

====
